---- MODULE Spec2Model ----
(***************************************************************************)
(* Model of the policy-scraper service (src/app.py).  src/main.py is an     *)
(* earlier single-tier draft of the scrape endpoint that does not parse    *)
(* (its try at line 34 is never closed) and is not part of the model.      *)
(*                                                                         *)
(* Two endpoints are modelled:                                             *)
(*   POST /scrape            scrape()            app.py 477-630            *)
(*   POST /process_document  process_document()  app.py 426-474            *)
(* Both handlers are "async def" without a single await, so one worker     *)
(* runs a request to completion before it starts the next one: the model   *)
(* has one request in progress at a time.  The scrape handler is cut into  *)
(* steps (pc) at every external call whose outcome the environment picks.  *)
(* The object store and the documents table outlive the requests.          *)
(*                                                                         *)
(* Two more specifications exercise functions on inputs of their own:      *)
(*   SpecCatalog  the three Catalog functions called directly              *)
(*   SpecExtract  extract_clean_text on every small flat document          *)
(***************************************************************************)
EXTENDS Integers, Sequences, FiniteSets, TLC

\* ---------------------------------------------------------------- bounds
MaxUrls == 2
MaxDocs == 2
MaxBlocks == 2

\* ------------------------------------------------------------- constants
\* app.py 534: max_retries = 3
max_retries_4 == 3 + 1
max_retries == 3

\* ---------------------------------------------------------------- values
\* Request URLs.  "http://[" is a URL on which urllib's urlparse raises
\* ValueError (unbalanced IPv6 bracket).
Urls == {"http://a/", "http://["}
PROJECT == "proj"

NULL_ID == 0
NULL_TEXT == "NULL"
NoName == [project |-> "", base |-> ""]
NULL_PATH == [kind |-> "null", name |-> NoName]
NoError == [msg |-> "absent", selenium |-> "none", fallback |-> "none"]
NoText == [kind |-> "none", selenium |-> "none", fallback |-> "none"]

\* str(e) of the exceptions the handler catches
RenderErrors == {"WebDriverException"}
StaticErrors == {"HTTPError"}
StepError == "RuntimeError"

VARIABLES
    cfg,            \* module globals: SUPABASE_*, DATABASE_URL, webdriver, PdfReader
    pc,             \* position of the worker
    urls,           \* body.urls of the scrape request in progress
    idx,            \* enumerate index of the URL in progress (1-based)
    attempt,        \* loop variable of the retry loop
    page_title,     \* driver.title of the last rendered page
    e,              \* exception bound by the outer "except Exception as e"
    fallback_error, \* exception bound by "except Exception as fallback_error"
    driver,         \* "none" | "open" | "quit"
    results,        \* the results list of the request
    response,       \* HTTP status of the last scrape request, 0 = none yet
    documents,      \* the documents table, row i has id i
    store,          \* object names held by the storage bucket
    gets,           \* history: driver.get calls / raises / requests.get calls for this URL
    proc,           \* last process_document request: response and steps performed
    call,           \* last direct call of a Catalog function and what it returned
    html,           \* the parsed document handed to extract_clean_text
    text_out        \* what extract_clean_text returned for it

vars == <<cfg, pc, urls, idx, attempt, page_title, e, fallback_error, driver,
          results, response, documents, store, gets, proc, call, html, text_out>>

\* ------------------------------------------------------------ pure parts

\* urlparse(url) (app.py 515): raises ValueError on an unbalanced bracket
UrlParseRaises(url) == url = "http://["

\* app.py 515-530: the object name derived from project id and URL
pdf_name(project_id, url) == [project |-> project_id, base |-> url]

\* app.py 271: the public object URL
PublicUrl(name) == [kind |-> "public", name |-> name]

\* app.py 275: f"upload_failed: {status} {text}"
UploadFailed == [kind |-> "upload_failed", name |-> NoName]

\* app.py 576 / 601: SUPABASE_URL and created_file.startswith(SUPABASE_URL)
IsStoreUrl_always(created_file) == TRUE
IsStoreUrl(created_file) == cfg.supabase /\ created_file.kind = "public"

\* app.py 617: the f-string naming the URL and both exceptions
ErrorContent_one(url, sel, fb) ==
    [kind |-> "error", selenium |-> sel, fallback |-> "none"]
ErrorContent(url, sel, fb) ==
    [kind |-> "error", selenium |-> sel, fallback |-> fb]

\* app.py 621: f"Selenium failed: {e}, Fallback failed: {fallback_error}"
ErrorDetail(sel, fb) == [msg |-> "both_failed", selenium |-> sel, fallback |-> fb]

\* app.py 569 / 595: extract_clean_text(html, url), as the text of that page
CleanText == [kind |-> "page", selenium |-> "none", fallback |-> "none"]

\* app.py 558-563: the last attempt re-raises, earlier ones sleep and loop
LastAttempt(att) == att >= max_retries - 1

\* app.py 590: where an exception of the outer try body lands
OuterExcept == "static"

\* --------------------------------------------------- create_pdf_from_text
\* app.py 171-244.  Outcomes of the external calls:
\*   "raise"          doc.build / open / requests.put raised
\*   "uploaded"       store configured, PUT answered 200/201/204
\*   "upload_failed"  store configured, PUT answered another status
\*   "local"          no store, os.replace moved the file to pdf_path
\*   "temp"           no store, os.replace failed, staging path returned
CreateOutcomes ==
    IF cfg.supabase THEN {"raise", "uploaded", "upload_failed"}
                    ELSE {"raise", "local", "temp"}

create_pdf_from_text(name, out) ==
    CASE out = "uploaded"      -> PublicUrl(name)
      [] out = "upload_failed" -> UploadFailed
      [] out = "local"         -> [kind |-> "local", name |-> name]
      [] out = "temp"          -> [kind |-> "temp", name |-> name]

\* app.py 191-244: what became of the staging file when the call returns.
\* With a store configured os.remove follows the upload whatever it
\* returned (232-236); without one the file is moved to pdf_path, or kept
\* when the move raised (239-244).
StagingFile(out) ==
    CASE out \in {"uploaded", "upload_failed"} -> "removed"
      [] out = "local"                         -> "moved"
      [] out = "temp"                          -> "kept"

\* app.py 268-272: after a 2xx PUT the bucket holds the object
upload_to_supabase(st, name, out) ==
    IF out = "uploaded" THEN st \cup {name} ELSE st

\* ------------------------------------------------- insert_document_record
\* app.py 278-323.  Outcomes of the database calls:
\*   "ok"           committed and closed, returns the new id
\*   "error"        connect / execute / commit raised: nothing persisted
\*   "close_error"  commit succeeded, cur.close() or conn.close() raised
InsertOutcomes ==
    IF Len(documents) < MaxDocs THEN {"ok", "error", "close_error"} ELSE {"error"}

NewRow_keep(project_id, filename, file_path) ==
    [project_id |-> project_id,
     filename |-> filename, file_path |-> file_path, source |-> "scrape",
     status |-> "pending", document_content |-> NULL_TEXT]
NewRow(project_id, filename, file_path) ==
    [project_id |-> IF project_id # "" THEN project_id ELSE "NULL",
     filename |-> filename, file_path |-> file_path, source |-> "scrape",
     status |-> "pending", document_content |-> NULL_TEXT]

\* the table after the call
insert_document_record(docs, project_id, filename, file_path, out) ==
    IF cfg.database /\ out \in {"ok", "close_error"}
    THEN Append(docs, NewRow(project_id, filename, file_path))
    ELSE docs

\* the value the call returns: the id, or None
InsertReturn(docs, out) ==
    IF cfg.database /\ out = "ok" THEN Len(docs) + 1 ELSE NULL_ID

\* ------------------------------------------------------------------ Init
\* The table starts with one row written by another producer; its
\* file_path column is NULL (the column is nullable, app.py 299).
ExternalRow ==
    [project_id |-> "other", filename |-> "ext.pdf", file_path |-> NULL_PATH,
     source |-> "import", status |-> "pending", document_content |-> NULL_TEXT]

\* no row: what get_document_by_id returns as None (app.py 416)
NoRow ==
    [id |-> NULL_ID, project_id |-> "NULL", filename |-> NoName,
     file_path |-> NULL_PATH, source |-> "NULL", status |-> "NULL",
     document_content |-> NULL_TEXT]

NoCall == [op |-> "none", id |-> NULL_ID, ok |-> FALSE, row |-> NoRow,
           project_id |-> "", filename |-> NoName, file_path |-> NULL_PATH]

\* extract_clean_text has not returned yet
NotRun == <<[pass |-> "not_run", prefix |-> "", text |-> "", block |-> ""]>>

NoProc == [resp |-> "none", id |-> NULL_ID, steps |-> <<>>, staged |-> "none",
           text |-> "none"]

Init ==
    /\ cfg \in [supabase : BOOLEAN, database : BOOLEAN,
                webdriver : BOOLEAN, PdfReader : BOOLEAN]
    /\ pc = "idle"
    /\ urls = <<>>
    /\ idx = 0
    /\ attempt = 0
    /\ page_title = "none"
    /\ e = "none"
    /\ fallback_error = "none"
    /\ driver = "none"
    /\ results = <<>>
    /\ response = 0
    /\ documents = <<ExternalRow>>
    /\ store = {}
    /\ gets = [render |-> 0, raised |-> 0, static |-> 0]
    /\ proc = NoProc
    /\ call = NoCall
    /\ html = <<>>
    /\ text_out = NotRun

\* ----------------------------------------------------------------- scrape
\* app.py 626-628: "if driver: driver.quit()" of the finally block
driver_quit_skip(d) == d
driver_quit(d) == IF d # "none" THEN "quit" ELSE d

UrlLists == UNION {[1..n -> Urls] : n \in 0..MaxUrls}

FreshLocals ==
    /\ attempt' = 0 /\ page_title' = "none" /\ e' = "none"
    /\ fallback_error' = "none"
    /\ gets' = [render |-> 0, raised |-> 0, static |-> 0]

\* app.py 479-511: request accepted, browser session started
\*   init = "chrome_fail"  webdriver.Chrome raised, driver stays None
\*   init = "setup_fail"   the driver exists, set_page_load_timeout or
\*                         execute_script raised; finally quits it
ScrapeBegin(us, init) ==
    /\ pc \in {"idle", "done"}
    /\ urls' = us
    /\ results' = <<>>
    /\ proc' = NoProc
    /\ FreshLocals
    /\ IF ~cfg.webdriver \/ init # "ok"
       THEN /\ response' = 500
            /\ driver' = driver_quit(IF cfg.webdriver /\ init = "setup_fail"
                                      THEN "open" ELSE "none")
            /\ pc' = "done"
            /\ idx' = 0
       ELSE /\ response' = 0
            /\ driver' = "open"
            /\ idx' = IF Len(us) = 0 THEN 0 ELSE 1
            /\ pc' = IF Len(us) = 0 THEN "finish" ELSE "name"
    /\ UNCHANGED <<call, html, text_out, cfg, documents, store>>

\* app.py 513-530: the name derivation, outside the per-URL try.  An
\* exception here reaches "except Exception" at 623: HTTP 500, driver quit.
DeriveName ==
    /\ pc = "name"
    /\ IF UrlParseRaises(urls[idx])
       THEN /\ response' = 500 /\ driver' = driver_quit(driver) /\ pc' = "done"
       ELSE /\ pc' = "render" /\ UNCHANGED <<response, driver>>
    /\ UNCHANGED <<call, html, text_out, cfg, urls, idx, attempt, page_title, e, fallback_error,
                   results, documents, store, gets, proc>>

\* app.py 535-563: one iteration of the retry loop
\*   out = "raise"    driver.get / execute_script / driver.title raised
\*   out = "blocked"  the title contains "blocked" or "forbidden"
\*   out = "ok"       any other title
RenderAttempt(out) ==
    /\ pc = "render"
    /\ gets' = [gets EXCEPT !.render = @ + 1,
                            !.raised = IF out = "raise" THEN @ + 1 ELSE @]
    /\ page_title' = IF out = "raise" THEN page_title ELSE out
    /\ IF out = "raise"
       THEN IF LastAttempt(attempt)
            THEN /\ e' \in RenderErrors
                 /\ pc' = OuterExcept
                 /\ UNCHANGED attempt
            ELSE /\ attempt' = attempt + 1
                 /\ UNCHANGED <<e, pc>>
       ELSE IF out = "blocked" /\ ~LastAttempt(attempt)
            THEN /\ attempt' = attempt + 1
                 /\ UNCHANGED <<e, pc>>
            ELSE /\ pc' = "rendered"
                 /\ UNCHANGED <<e, attempt>>
    /\ UNCHANGED <<call, html, text_out, cfg, urls, idx, fallback_error, driver, results, response,
                   documents, store, proc>>

\* the loop header at 513 after a result was appended: the except blocks
\* are left (e and fallback_error are unbound again), attempt and page_title
\* are written before they are read for the next URL
NextUrl ==
    /\ idx' = idx + 1
    /\ pc' = IF idx = Len(urls) THEN "finish" ELSE "name"
    /\ FreshLocals

Entry(url, pdf_file, method, document_id, error, text, staging) ==
    [url |-> url, pdf_file |-> pdf_file, method |-> method,
     document_id |-> document_id, error |-> error, text |-> text,
     staging |-> staging]

\* app.py 572-588 and 598-613: render the artifact, insert the row when the
\* artifact address is a store URL, append the result
StoreAndRecord(method, cout, iout) ==
    LET name == pdf_name(PROJECT, urls[idx])
        created_file == create_pdf_from_text(name, cout)
        ins == IsStoreUrl(created_file)
    IN  /\ store' = upload_to_supabase(store, name, cout)
        /\ documents' = IF ins
                        THEN insert_document_record(documents, PROJECT, name,
                                                    created_file, iout)
                        ELSE documents
        /\ results' = Append(results,
              Entry(urls[idx], created_file, method,
                    IF ins THEN InsertReturn(documents, iout) ELSE NULL_ID,
                    NoError, CleanText, StagingFile(cout)))
        /\ NextUrl

\* app.py 565-588: page_source, extraction, artifact, row, result
RenderedPipeline(cout, iout) ==
    /\ pc = "rendered"
    /\ IF cout = "raise"
       THEN /\ e' = StepError
            /\ pc' = OuterExcept
            /\ UNCHANGED <<idx, results, documents, store, attempt,
                           page_title, fallback_error, gets>>
       ELSE StoreAndRecord("selenium", cout, iout)
    /\ UNCHANGED <<call, html, text_out, cfg, urls, driver, response, proc>>

\* app.py 593-594: requests.get and raise_for_status
StaticFetch(ok) ==
    /\ pc = "static"
    /\ gets' = [gets EXCEPT !.static = @ + 1]
    /\ IF ok
       THEN /\ pc' = "static_ok" /\ UNCHANGED fallback_error
       ELSE /\ pc' = "errorpdf" /\ fallback_error' \in StaticErrors
    /\ UNCHANGED <<call, html, text_out, cfg, urls, idx, attempt, page_title, e, driver, results,
                   response, documents, store, proc>>

\* app.py 595-613
StaticPipeline(cout, iout) ==
    /\ pc = "static_ok"
    /\ IF cout = "raise"
       THEN /\ fallback_error' = StepError
            /\ pc' = "errorpdf"
            /\ UNCHANGED <<idx, results, documents, store, attempt,
                           page_title, e, gets>>
       ELSE StoreAndRecord("requests_fallback", cout, iout)
    /\ UNCHANGED <<call, html, text_out, cfg, urls, driver, response, proc>>

\* app.py 614-621: the error artifact, or the bare entry when it raises
ErrorArtifact(cout) ==
    /\ pc = "errorpdf"
    /\ LET name == pdf_name(PROJECT, urls[idx])
       IN IF cout = "raise"
          THEN /\ results' = Append(results,
                    Entry(urls[idx], NULL_PATH, "absent", NULL_ID,
                          ErrorDetail(e, fallback_error), NoText, "none"))
               /\ UNCHANGED store
          ELSE /\ store' = upload_to_supabase(store, name, cout)
               /\ results' = Append(results,
                    Entry(urls[idx], create_pdf_from_text(name, cout),
                          "error_pdf", NULL_ID,
                          [msg |-> "both_failed_pdf", selenium |-> "none",
                           fallback |-> "none"],
                          ErrorContent(urls[idx], e, fallback_error),
                          StagingFile(cout)))
    /\ NextUrl
    /\ UNCHANGED <<call, html, text_out, cfg, urls, driver, response, documents, proc>>

\* app.py 626-630: driver.quit() and the 200 response
ScrapeFinish ==
    /\ pc = "finish"
    /\ driver' = driver_quit(driver)
    /\ response' = 200
    /\ pc' = "done"
    /\ UNCHANGED <<call, html, text_out, cfg, urls, idx, attempt, page_title, e, fallback_error,
                   results, documents, store, gets, proc>>

\* ------------------------------------------------------- process_document
\* app.py 389-423: the row, or None when the driver or DATABASE_URL is
\* missing, when a database call raises, or when no row has the id
GetFails(docs, id, out) ==
    ~cfg.database \/ out = "error" \/ id \notin 1..Len(docs)

\* app.py 326-338.  Outcomes:
\*   "ok"           the body was written to a new temporary file
\*   "http_error"   requests.get / raise_for_status raised: no file
\*   "write_error"  the temporary file was created, tmp_file.write raised
DownloadOutcomes == {"ok", "http_error", "write_error"}

\* app.py 341-358.  Outcomes: "none" (PdfReader raised, None returned),
\* "empty" (no page has text, '' returned), "text"
ExtractOutcomes == {"none", "empty", "text"}

\* app.py 452: "if not extracted_text"
ExtractionFailed_none(text) == text = "none"
ExtractionFailed(text) == text \in {"none", "empty"}

\* app.py 370-373: the UPDATE statement applied to one row
UpdateRow_status(row, content) == [row EXCEPT !.status = "processed"]
UpdateRow(row, content) ==
    [row EXCEPT !.document_content = content, !.status = "processed"]

\* app.py 361-386.  Outcomes of the database calls:
\*   "ok"           committed and closed
\*   "error"        connect / execute / commit raised: nothing persisted
\*   "close_error"  commit succeeded, cur.close() or conn.close() raised
UpdateOutcomes == {"ok", "error", "close_error"}

\* the UPDATE matched the row and was committed (cur.rowcount > 0)
RowAffected(docs, id, out) ==
    cfg.database /\ out \in {"ok", "close_error"} /\ id \in 1..Len(docs)

\* the table after the call
update_document_content(docs, id, content, out) ==
    IF RowAffected(docs, id, out)
    THEN [docs EXCEPT ![id] = UpdateRow(@, content)]
    ELSE docs

\* the value the call returns: rows_updated > 0, False on any exception
UpdateReturn(docs, id, out) ==
    cfg.database /\ out = "ok" /\ id \in 1..Len(docs)

Step(name, met) == [name |-> name, met |-> met]

\* app.py 429-439: the PdfReader check, the row lookup, the file_path check.
\* proc.steps lists the steps the request performed and whether each one
\* met its condition; proc.staged tells what became of the staging file.
ProcessBegin(id, gout) ==
    /\ pc \in {"idle", "done"}
    /\ LET found == ~GetFails(documents, id, gout)
           path == IF found THEN documents[id].file_path ELSE NULL_PATH
           s1 == <<Step("get", found)>>
           s2 == Append(s1, Step("file_path", path # NULL_PATH))
           new == [resp |-> "none", id |-> id, steps |-> <<>>, staged |-> "none",
                   text |-> "none"]
       IN  IF ~cfg.PdfReader
           THEN /\ proc' = [new EXCEPT !.resp = "no_pypdf2"]
                /\ pc' = "done"
           ELSE IF ~found
           THEN /\ proc' = [new EXCEPT !.resp = "not_found", !.steps = s1]
                /\ pc' = "done"
           ELSE IF path = NULL_PATH
           THEN /\ proc' = [new EXCEPT !.resp = "no_file_path", !.steps = s2]
                /\ pc' = "done"
           ELSE /\ proc' = [new EXCEPT !.steps = s2]
                /\ pc' = "download"
    /\ urls' = <<>> /\ idx' = 0 /\ driver' = "none"
    /\ results' = <<>> /\ response' = 0
    /\ FreshLocals
    /\ UNCHANGED <<call, html, text_out, cfg, documents, store>>

\* app.py 443-445: download_pdf_from_url and its None check
ProcessDownload(dout) ==
    /\ pc = "download"
    /\ LET s3 == Append(proc.steps, Step("download", dout = "ok"))
       IN  IF dout = "ok"
           THEN /\ proc' = [proc EXCEPT !.steps = s3, !.staged = "staged"]
                /\ pc' = "extract"
           ELSE /\ proc' = [proc EXCEPT !.steps = s3, !.resp = "download_failed",
                               !.staged = IF dout = "write_error" THEN "left"
                                          ELSE "none"]
                /\ pc' = "done"
    /\ UNCHANGED <<call, html, text_out, cfg, urls, idx, attempt, page_title, e, fallback_error,
                   driver, results, response, documents, store, gets>>

\* app.py 450-453 and, on failure, the finally block 469-474
\*   rm = FALSE: os.remove raised and the bare except swallowed it
ProcessExtract(xout, rm) ==
    /\ pc = "extract"
    /\ LET s4 == Append(proc.steps, Step("extract", xout = "text"))
       IN  IF ExtractionFailed(xout)
           THEN /\ proc' = [proc EXCEPT !.steps = s4, !.resp = "extract_failed",
                               !.text = xout,
                               !.staged = IF rm THEN "removed" ELSE "left"]
                /\ pc' = "done"
           ELSE /\ proc' = [proc EXCEPT !.steps = s4, !.text = xout]
                /\ pc' = "update"
    /\ UNCHANGED <<call, html, text_out, cfg, urls, idx, attempt, page_title, e, fallback_error,
                   driver, results, response, documents, store, gets>>

\* app.py 457-474: the update, the response, the finally block
ProcessUpdate(uout, rm) ==
    /\ pc = "update"
    /\ documents' = update_document_content(documents, proc.id, proc.text, uout)
    /\ proc' = [proc EXCEPT
                  !.steps = Append(@, Step("update", RowAffected(documents, proc.id, uout))),
                  !.resp = IF UpdateReturn(documents, proc.id, uout)
                           THEN "processed" ELSE "update_failed",
                  !.staged = IF rm THEN "removed" ELSE "left"]
    /\ pc' = "done"
    /\ UNCHANGED <<call, html, text_out, cfg, urls, idx, attempt, page_title, e, fallback_error,
                   driver, results, response, store, gets>>

Next ==
    \/ \E us \in UrlLists, init \in {"ok", "chrome_fail", "setup_fail"} :
          ScrapeBegin(us, init)
    \/ DeriveName
    \/ \E out \in {"raise", "blocked", "ok"} : RenderAttempt(out)
    \/ \E cout \in CreateOutcomes, iout \in InsertOutcomes : RenderedPipeline(cout, iout)
    \/ \E ok \in BOOLEAN : StaticFetch(ok)
    \/ \E cout \in CreateOutcomes, iout \in InsertOutcomes : StaticPipeline(cout, iout)
    \/ \E cout \in CreateOutcomes : ErrorArtifact(cout)
    \/ ScrapeFinish
    \/ \E id \in 1..(MaxDocs + 1), gout \in {"ok", "error"} : ProcessBegin(id, gout)
    \/ \E dout \in DownloadOutcomes : ProcessDownload(dout)
    \/ \E xout \in ExtractOutcomes, rm \in BOOLEAN : ProcessExtract(xout, rm)
    \/ \E uout \in UpdateOutcomes, rm \in BOOLEAN : ProcessUpdate(uout, rm)

Spec == Init /\ [][Next]_vars

\* ------------------------------------------------ the Catalog functions
\* insert_document_record, get_document_by_id and update_document_content
\* called directly, with arguments of the caller's choosing, as
\* test_db_insert.py 28-41 drives the table.
Projects == {"", PROJECT}
FilePaths == {PublicUrl(pdf_name(PROJECT, "http://a/")), UploadFailed}

\* app.py 389-423: the record built from the selected row, or None when
\* psycopg2 / DATABASE_URL is missing, a call raises, or no row matches
get_document_by_id(docs, id, out) ==
    IF GetFails(docs, id, out)
    THEN NoRow
    ELSE [id |-> id, project_id |-> docs[id].project_id,
          filename |-> docs[id].filename, file_path |-> docs[id].file_path,
          source |-> docs[id].source, status |-> docs[id].status,
          document_content |-> docs[id].document_content]

\* app.py 278-323
CatalogInsert(project_id, file_path, out) ==
    /\ documents' = insert_document_record(documents, project_id,
                         file_path.name, file_path, out)
    /\ call' = [op |-> "insert", id |-> InsertReturn(documents, out),
                ok |-> FALSE, row |-> NoRow, project_id |-> project_id,
                filename |-> file_path.name, file_path |-> file_path]
    /\ UNCHANGED <<cfg, pc, urls, idx, attempt, page_title, e, fallback_error,
                   driver, results, response, store, gets, proc, html, text_out>>

\* app.py 389-423
CatalogGet(id, out) ==
    /\ call' = [call EXCEPT !.op = "get", !.id = id, !.ok = FALSE,
                            !.row = get_document_by_id(documents, id, out)]
    /\ UNCHANGED <<cfg, pc, urls, idx, attempt, page_title, e, fallback_error,
                   driver, results, response, documents, store, gets, proc,
                   html, text_out>>

\* app.py 361-386
CatalogUpdate(id, out) ==
    /\ documents' = update_document_content(documents, id, "text", out)
    /\ call' = [call EXCEPT !.op = "update", !.id = id, !.row = NoRow,
                            !.ok = UpdateReturn(documents, id, out)]
    /\ UNCHANGED <<cfg, pc, urls, idx, attempt, page_title, e, fallback_error,
                   driver, results, response, store, gets, proc, html, text_out>>

NextCatalog ==
    \/ \E project_id \in Projects, file_path \in FilePaths, out \in InsertOutcomes :
          CatalogInsert(project_id, file_path, out)
    \/ \E id \in 1..(MaxDocs + 1), out \in {"ok", "error"} : CatalogGet(id, out)
    \/ \E id \in 1..(MaxDocs + 1), out \in UpdateOutcomes : CatalogUpdate(id, out)

SpecCatalog == Init /\ [][NextCatalog]_vars

\* ----------------------------------------------------- extract_clean_text
\* app.py 69-168 applied to a parsed document: a sequence of sibling
\* elements, each with a tag name and the text get_text returns for it.
\* Tags stand for the classes the function tells apart:
\*   "p"     a content element that needs two words (app.py 146)
\*   "h2"    a heading (app.py 140)
\*   "td"    a table cell (app.py 143)
\*   "span"  an inline element, seen by the fallback pass only (app.py 153)
\*   "nav"   an element of unwanted_tags, decomposed first (app.py 88-98)
Tags == {"p", "h2", "td", "span", "nav"}
unwanted_tags == {"nav"}
Headings == {"h2"}
TableCells == {"td"}
InlineTags == {"span"}

\* Element texts, and for each what the string operations of the function
\* compute on it:
\*   len       len(text)
\*   words     len(text.split())
\*   nonword   re.match(r'^[\s\W]*$', text): "_" is a word character
\*   cookie    'cookie' in text.lower()
\*   subscribe 'subscribe' in text.lower()[:30]
\*   clean     ' '.join(text.split())
TextTable ==
    [t \in {"Data policy text", "Data  policy text", "Accept all Cookies",
            "Subscribe to our news",
            "Read the terms before you decide to subscribe",
            "-- !! --", "___ ___", "Overview", "ok"} |->
     CASE t = "Data policy text" ->
            [len |-> 16, words |-> 3, nonword |-> FALSE, cookie |-> FALSE,
             subscribe |-> FALSE, clean |-> t]
       [] t = "Data  policy text" ->
            [len |-> 17, words |-> 3, nonword |-> FALSE, cookie |-> FALSE,
             subscribe |-> FALSE, clean |-> "Data policy text"]
       [] t = "Accept all Cookies" ->
            [len |-> 18, words |-> 3, nonword |-> FALSE, cookie |-> TRUE,
             subscribe |-> FALSE, clean |-> t]
       [] t = "Subscribe to our news" ->
            [len |-> 21, words |-> 4, nonword |-> FALSE, cookie |-> FALSE,
             subscribe |-> TRUE, clean |-> t]
       [] t = "Read the terms before you decide to subscribe" ->
            [len |-> 45, words |-> 8, nonword |-> FALSE, cookie |-> FALSE,
             subscribe |-> FALSE, clean |-> t]
       [] t = "-- !! --" ->
            [len |-> 8, words |-> 3, nonword |-> TRUE, cookie |-> FALSE,
             subscribe |-> FALSE, clean |-> t]
       [] t = "___ ___" ->
            [len |-> 7, words |-> 2, nonword |-> FALSE, cookie |-> FALSE,
             subscribe |-> FALSE, clean |-> t]
       [] t = "Overview" ->
            [len |-> 8, words |-> 1, nonword |-> FALSE, cookie |-> FALSE,
             subscribe |-> FALSE, clean |-> t]
       [] t = "ok" ->
            [len |-> 2, words |-> 1, nonword |-> FALSE, cookie |-> FALSE,
             subscribe |-> FALSE, clean |-> t]]
Texts == DOMAIN TextTable

Elements == [tag : Tags, text : Texts]
HtmlInputs == UNION {[1..n -> Elements] : n \in 0..MaxBlocks}

\* len("[HEADING] ") and len("[TABLE] ")
PrefixLen(prefix) ==
    CASE prefix = "[HEADING] " -> 10 [] prefix = "[TABLE] " -> 8 [] OTHER -> 0

\* app.py 133-137: the filter of the main pass
PassesFilter_nocookie(text) ==
    /\ TextTable[text].len > 2
    /\ ~TextTable[text].nonword
    /\ ~TextTable[text].subscribe
PassesFilter(text) ==
    /\ TextTable[text].len > 2
    /\ ~TextTable[text].nonword
    /\ ~TextTable[text].cookie
    /\ ~TextTable[text].subscribe

\* app.py 139-147: what the main pass appends for one element
MainKeeps(el) ==
    /\ el.tag \notin InlineTags
    /\ PassesFilter(el.text)
    /\ \/ el.tag \in Headings
       \/ el.tag \in TableCells /\ TextTable[el.text].words >= 1
       \/ el.tag \notin Headings \cup TableCells /\ TextTable[el.text].words >= 2

MainPrefix(tag) ==
    CASE tag \in Headings -> "[HEADING] "
      [] tag \in TableCells -> "[TABLE] "
      [] OTHER -> ""

\* app.py 153-156: what the fallback pass appends for one element
FallbackKeeps(el) ==
    /\ el.tag \in InlineTags
    /\ TextTable[el.text].len > 5
    /\ TextTable[el.text].words >= 1

Segment(pass, el) ==
    [pass |-> pass, prefix |-> IF pass = "main" THEN MainPrefix(el.tag) ELSE "",
     text |-> TextTable[el.text].clean, block |-> el.text]

\* app.py 158-166: first occurrence of every cleaned string longer than 2
RECURSIVE Unique(_, _)
Unique(content, seen) ==
    IF content = <<>> THEN <<>>
    ELSE LET seg == Head(content)
             clean_text == <<seg.prefix, seg.text>>
         IN  IF /\ clean_text \notin seen
                /\ PrefixLen(seg.prefix) + TextTable[seg.text].len > 2
             THEN <<seg>> \o Unique(Tail(content), seen \cup {clean_text})
             ELSE Unique(Tail(content), seen)

\* app.py 86-168: the segments joined by blank lines in the returned string
extract_clean_text(html_content) ==
    LET IsKept(el) == el.tag \notin unwanted_tags
        soup == SelectSeq(html_content, IsKept)
        main == SelectSeq(soup, MainKeeps)
        inline == SelectSeq(soup, FallbackKeeps)
        text_content ==
            IF main # <<>>
            THEN [i \in 1..Len(main) |-> Segment("main", main[i])]
            ELSE [i \in 1..Len(inline) |-> Segment("fallback", inline[i])]
    IN  Unique(text_content, {})

ExtractCleanText ==
    /\ text_out = NotRun
    /\ text_out' = extract_clean_text(html)
    /\ UNCHANGED <<cfg, pc, urls, idx, attempt, page_title, e, fallback_error,
                   driver, results, response, documents, store, gets, proc,
                   call, html>>

InitExtract ==
    /\ cfg = [supabase |-> TRUE, database |-> TRUE, webdriver |-> TRUE,
              PdfReader |-> TRUE]
    /\ pc = "idle"
    /\ urls = <<>>
    /\ idx = 0
    /\ attempt = 0
    /\ page_title = "none"
    /\ e = "none"
    /\ fallback_error = "none"
    /\ driver = "none"
    /\ results = <<>>
    /\ response = 0
    /\ documents = <<ExternalRow>>
    /\ store = {}
    /\ gets = [render |-> 0, raised |-> 0, static |-> 0]
    /\ proc = NoProc
    /\ call = NoCall
    /\ html \in HtmlInputs
    /\ text_out = NotRun

SpecExtract == InitExtract /\ [][ExtractCleanText]_vars

\* ================================================================ claims
Last(sq) == sq[Len(sq)]
Appended == Len(results') = Len(results) + 1

\* the retry loop of the URL in progress ended by re-raising / the static
\* fetch of that URL raised
RenderFailed == e \in RenderErrors
StaticFailed == fallback_error \in StaticErrors

\* C1: a URL whose rendered fetch raises on every attempt gets exactly 3
\* rendered attempts before the static fetch: never more than 3 attempts,
\* no static fetch while the retry loop runs, and once the handler has
\* left the loop with every attempt raised, 3 attempts were made.
C1_RetryBound ==
    /\ gets.render <= 3
    /\ (pc = "render" => gets.static = 0)
    /\ (gets.render > 0 /\ gets.raised = gets.render
          /\ (pc \in {"static", "static_ok", "errorpdf"} \/ gets.static > 0)
        => gets.render = 3)

C1_Witness ==
    pc = "static" /\ gets.render = 3 /\ gets.raised = 3 /\ gets.static = 0

\* the rendered fetch of the URL in progress used up its attempts without
\* a usable page: the last attempt raised, or its page was a blocked one
RenderExhausted == RenderFailed \/ (page_title = "blocked" /\ LastAttempt(attempt))

\* C2: whenever a result entry is appended for a URL whose rendered fetch
\* failed with all attempts used up, a static fetch of that URL has been
\* attempted before.
C2_StaticBeforeResult ==
    [][(Appended /\ RenderExhausted) => gets.static >= 1]_vars

\* C3 (as stated): whenever the entry of a URL whose rendered fetch and
\* static fetch both failed is appended, it carries the method tag
\* error_pdf and its synthesized content names both failure causes.
C3_ErrorArtifactAlways ==
    [][(Appended /\ RenderFailed /\ StaticFailed) =>
          /\ Last(results').method = "error_pdf"
          /\ Last(results').text.selenium = e
          /\ Last(results').text.fallback = fallback_error]_vars

\* C3 (amended): the entry of such a URL names both failure causes: with
\* the method tag error_pdf and both causes in the synthesized content when
\* the error artifact was rendered, or without a method tag and an artifact
\* address, both causes in its error field, when rendering it raised.
C3_BothCausesNamed ==
    [][(Appended /\ RenderFailed /\ StaticFailed) =>
          \/ /\ Last(results').method = "error_pdf"
             /\ Last(results').text.kind = "error"
             /\ Last(results').text.selenium = e
             /\ Last(results').text.fallback = fallback_error
          \/ /\ Last(results').method = "absent"
             /\ Last(results').pdf_file = NULL_PATH
             /\ Last(results').error.selenium = e
             /\ Last(results').error.fallback = fallback_error]_vars

C3_Witness ==
    \E i \in 1..Len(results) :
        /\ results[i].method = "error_pdf"
        /\ results[i].text.selenium \in RenderErrors
        /\ results[i].text.fallback \in StaticErrors

\* C4: a page whose title says blocked / forbidden is never taken as a
\* successful rendered fetch: the handler never goes on to read the page
\* source of a blocked page.
C4_BlockedNeverRendered ==
    pc = "rendered" => page_title # "blocked"

\* C5: once the browser session is up and the loop has started, the request
\* answers with one entry per input URL, in input order.
C5_OneEntryPerUrl ==
    (pc = "done" /\ idx >= 1) =>
        /\ response = 200
        /\ Len(results) = Len(urls)
        /\ \A i \in 1..Len(urls) : results[i].url = urls[i]

\* C6: a scrape request answers 500 only when the browser session could not
\* be initialized, that is before any URL was started.
C6_FailsOnlyOnInit ==
    response = 500 => idx = 0

ScrapeRows == {i \in 1..Len(documents) : documents[i].source = "scrape"}

\* C7 (as stated): a row exists if and only if an artifact was uploaded:
\* every pipeline row points at a stored object and every stored object has
\* a row.
C7_RowIffArtifact ==
    /\ \A i \in ScrapeRows :
          /\ documents[i].file_path.kind = "public"
          /\ documents[i].file_path.name \in store
    /\ \A n \in store :
          \E i \in ScrapeRows : documents[i].file_path = PublicUrl(n)

\* C7 (amended): a row is inserted only after a successful upload: the
\* file_path of every pipeline row is the public URL of a stored object.
C7_RowOnlyIfArtifact ==
    \A i \in ScrapeRows :
        /\ documents[i].file_path.kind = "public"
        /\ documents[i].file_path.name \in store

C7_Witness ==
    \E i \in ScrapeRows : documents[i].file_path.name \in store

\* C8: when the upload answers with a failure status, the URL's entry has
\* no row and records an error instead of a successful method with the
\* diagnostic string as its artifact.
C8_UploadFailureIsError ==
    \A i \in 1..Len(results) :
        results[i].pdf_file = UploadFailed =>
            /\ results[i].document_id = NULL_ID
            /\ results[i].error # NoError
            /\ results[i].method \notin {"selenium", "requests_fallback"}

RowOk(row) ==
    /\ row.status \in {"pending", "processed"}
    /\ (row.document_content = NULL_TEXT <=> row.status = "pending")

\* C9: every row is pending with null content or processed with content; a
\* new row starts pending with null content; the only status change is
\* pending to processed and rows are never removed.
C9_Lifecycle ==
    /\ [](\A i \in 1..Len(documents) : RowOk(documents[i]))
    /\ [][/\ Len(documents') >= Len(documents)
          /\ \A i \in 1..Len(documents') :
                IF i <= Len(documents)
                THEN documents'[i].status # documents[i].status =>
                        /\ documents[i].status = "pending"
                        /\ documents'[i].status = "processed"
                ELSE /\ documents'[i].status = "pending"
                     /\ documents'[i].document_content = NULL_TEXT]_vars

C9_Witness ==
    \E i \in ScrapeRows :
        /\ documents[i].status = "processed"
        /\ documents[i].document_content = "text"

StepOrder == <<"get", "file_path", "download", "extract", "update">>
StepFailure ==
    <<"not_found", "no_file_path", "download_failed", "extract_failed",
      "update_failed">>

\* the steps performed are a prefix of the order, all but the last one met
StepsInOrder ==
    /\ Len(proc.steps) <= 5
    /\ \A k \in 1..Len(proc.steps) :
          /\ proc.steps[k].name = StepOrder[k]
          /\ (k < Len(proc.steps) => proc.steps[k].met)

FirstUnmetAnswered ==
    /\ (proc.steps # <<>> /\ ~Last(proc.steps).met =>
            proc.resp = StepFailure[Len(proc.steps)])
    /\ (proc.resp = "processed" =>
            Len(proc.steps) = 5 /\ Last(proc.steps).met)

\* C10 (as stated): every answer of the reprocessing endpoint is processed
\* or the failure of the first unmet step of the order record, file_path,
\* download, extraction, update, and no later step was performed.
C10_FirstUnmetStep ==
    proc.resp # "none" =>
        /\ proc.resp \in {"processed"} \cup
              {StepFailure[k] : k \in 1..5}
        /\ proc.steps # <<>>
        /\ StepsInOrder
        /\ FirstUnmetAnswered

\* C10 (amended): when PDF text extraction is unavailable the endpoint
\* fails before any step; otherwise it performs the steps in the order
\* record, file_path, download, extraction, update, stops at the first
\* unmet one with that step's failure, and answers processed only after all
\* five were met.
C10_CapabilityThenSteps ==
    /\ StepsInOrder
    /\ (proc.resp = "none" => \A k \in 1..Len(proc.steps) : proc.steps[k].met)
    /\ (proc.resp # "none" =>
          IF ~cfg.PdfReader
          THEN proc.resp = "no_pypdf2" /\ proc.steps = <<>>
          ELSE /\ proc.resp \in {"processed"} \cup
                     {StepFailure[k] : k \in 1..5}
               /\ proc.steps # <<>>
               /\ FirstUnmetAnswered)

C10_Witness ==
    /\ proc.resp = "extract_failed"
    /\ Len(proc.steps) = 4
    /\ ~proc.steps[4].met
\* ------------------------------------------------------------------ C11
\* a fetch by the id an insert just returned
RoundTrip ==
    /\ call.op = "insert" /\ call.id # NULL_ID
    /\ call'.op = "get" /\ call'.id = call.id /\ call'.row.id # NULL_ID

\* C11 as stated: for every project_id, filename and file_path, inserting
\* a document and then fetching it by the returned id yields a record
\* whose project_id, filename, file_path and source equal what was
\* inserted, with status pending and document_content null.
C11_RoundTripExact ==
    [][RoundTrip =>
          /\ call'.row.project_id = call.project_id
          /\ call'.row.filename = call.filename
          /\ call'.row.file_path = call.file_path
          /\ call'.row.source = "scrape"
          /\ call'.row.status = "pending"
          /\ call'.row.document_content = NULL_TEXT]_vars

\* C11, amended: the fetched record has the inserted filename, file_path
\* and source, status pending and document_content null; its project_id
\* is the inserted one when that is not empty, and null when it is empty.
C11_RoundTripNullsEmptyProject ==
    [][RoundTrip =>
          /\ call'.row.project_id =
                 (IF call.project_id = "" THEN "NULL" ELSE call.project_id)
          /\ call'.row.filename = call.filename
          /\ call'.row.file_path = call.file_path
          /\ call'.row.source = "scrape"
          /\ call'.row.status = "pending"
          /\ call'.row.document_content = NULL_TEXT]_vars

\* C11 witness: a record was fetched by the id the preceding insert
\* returned, for a non-empty project_id
C11_Witness ==
    /\ call.op = "get" /\ call.row.id # NULL_ID
    /\ call.id = Len(documents) /\ call.project_id = PROJECT
    /\ call.row.project_id = PROJECT /\ call.row.file_path = call.file_path

\* ------------------------------------------------------------------ C12
\* a text made of punctuation and whitespace only
PunctuationOnly(text) == text \in {"-- !! --", "___ ___"}

C13_StaticOnlyAfterRenderFailure ==
    gets.static >= 1 => e \in RenderErrors

\* ------------------------------------------------------------------ C14
\* the worker is inside the per-URL part of the request
InUrlLoop == pc \in {"name", "render", "rendered", "static", "static_ok",
                     "errorpdf", "finish"}

ArtifactAt(entry) ==
    CASE entry.pdf_file.kind = "public" -> entry.pdf_file.name \in store
      [] entry.pdf_file.kind = "local"  -> entry.staging = "moved"
      [] entry.pdf_file.kind = "temp"   -> entry.staging = "kept"
      [] OTHER                          -> FALSE

\* C15: whenever the Artifact Renderer generated an artifact and returned,
\* the artifact exists at the address it returned, and the staging file was
\* deleted only if the artifact is stored at the returned address.
C15_ArtifactAtReturnedAddress ==
    \A i \in 1..Len(results) :
        results[i].method # "absent" =>
            /\ ArtifactAt(results[i])
            /\ results[i].staging = "removed" =>
                   (results[i].pdf_file.kind = "public"
                      /\ results[i].pdf_file.name \in store)

\* ------------------------------------------------------------------ C16
\* C16: every staging file created while downloading is deleted on every
\* exit path of the reprocessing request: success, download failure after
\* the file was created, extraction failure, update failure.
C16_StagingFileDeleted ==
    (pc = "done" /\ proc.resp # "none") => proc.staged \in {"none", "removed"}

\* ------------------------------------------------------------------ C17
\* C17: a Catalog write reports failure only when nothing was persisted:
\* insert returns null only if no row was committed, update returns false
\* only if no row changed, also when an error occurs after the commit.
C17_FailureMeansNothingPersisted ==
    [][/\ (call'.op = "insert" /\ call'.id = NULL_ID) => documents' = documents
       /\ (call'.op = "update" /\ ~call'.ok) => documents' = documents]_vars

====
